---------------------------- MODULE Spec2Model ----------------------------
(***************************************************************************)
(* Joint Replenishment Problem solver (src/models/jrp_solver.py).          *)
(*                                                                         *)
(* Numbers.  The inputs A, r, a, D, v are rationals <<n, d>> (d > 0, in    *)
(* lowest terms).  The solver takes square roots, so computed values are   *)
(* exact reals of the form  sum_s c_s * sqrt(s)  with s a squarefree       *)
(* positive integer and c_s a nonzero rational: a function from the        *)
(* radicands s to the coefficients c_s (the empty function is 0, a         *)
(* rational q is (1 :> q)).  Two such reals are equal iff the functions    *)
(* are equal.  This is the arithmetic of the code with the floating-point  *)
(* rounding error left out.                                                *)
(***************************************************************************)
EXTENDS Integers, Sequences, FiniteSets, TLC

\* ------------------------------------------------------------------ bounds
MaxItems == 3        \* longest items list of a parameter set
MaxSetup == 2        \* a and A range over 0..MaxSetup / 0..MaxMajor
MaxMajor == 1
MaxDemand == 2       \* D ranges over 0..MaxDemand
MaxValue == 1        \* v ranges over 0..MaxValue
MaxRate == 1         \* r ranges over 0..MaxRate
\* the sweeps are explored on smaller parameter sets, with every sample list
MaxSweepItems == 2   \* longest items list of a swept parameter set
MaxSweepInput == 1   \* A, r, a, D, v of a swept parameter set: 0..MaxSweepInput
MaxSamples == 2      \* longest sample list of a sweep
MaxSampleValue == 2  \* samples range over 0..MaxSampleValue
\* single solves are also explored on short lists with wider values
MaxWideItems == 2    \* longest items list of a wide parameter set
MaxWideSetup == 5    \* a ranges over 0..MaxWideSetup
MaxWideDemand == 5   \* D ranges over 0..MaxWideDemand
MajorDivisor == 10   \* A also takes the value 1/MajorDivisor

\* --------------------------------------------------------------- rationals
Abs(x) == IF x < 0 THEN 0 - x ELSE x

RECURSIVE GCD(_, _)
GCD(x, y) == IF y = 0 THEN x ELSE GCD(y, x % y)

\* n/d in lowest terms, with a positive denominator (d # 0)
Rat(n, d) ==
    LET sn == IF d < 0 THEN 0 - n ELSE n
        sd == Abs(d)
        g  == GCD(Abs(sn), sd)
    IN  <<sn \div g, sd \div g>>

RInt(n) == <<n, 1>>
RZero == <<0, 1>>
ROne == <<1, 1>>
RAdd(x, y) == Rat(x[1] * y[2] + y[1] * x[2], x[2] * y[2])
RSub(x, y) == Rat(x[1] * y[2] - y[1] * x[2], x[2] * y[2])
RMul(x, y) == Rat(x[1] * y[1], x[2] * y[2])
\* x / y for y # 0
RDiv(x, y) == Rat(x[1] * y[2], x[2] * y[1])
RLess(x, y) == x[1] * y[2] < y[1] * x[2]
RLeq(x, y) == x[1] * y[2] <= y[1] * x[2]

\* ------------------------------------------------------------------- reals
\* the largest k with k*k <= x (x >= 0), searched between lo and hi
RECURSIVE ISqrtIn(_, _, _)
ISqrtIn(x, lo, hi) ==
    IF lo >= hi THEN lo
    ELSE LET mid == (lo + hi + 1) \div 2
         IN  IF mid <= x \div mid THEN ISqrtIn(x, mid, hi) ELSE ISqrtIn(x, lo, mid - 1)

\* (the square root of a 32-bit integer is at most 46340)
ISqrt(x) == ISqrtIn(x, 0, IF x < 46340 THEN x ELSE 46340)

MaxOf(S) == CHOOSE k \in S : \A j \in S : j <= k

\* the largest k with k*k dividing x (x >= 1)
SquarePart(x) == MaxOf({k \in 1..ISqrt(x) : x % (k * k) = 0})

RealZero == [s \in {} |-> RZero]
\* c * sqrt(n) for a rational c and an integer n >= 0
Surd(c, n) ==
    IF n = 0 \/ c = RZero THEN RealZero
    ELSE CHOOSE out \in {[s \in {n \div (k * k)} |-> RMul(c, RInt(k))] :
                            k \in {SquarePart(n)}} : TRUE

\* Surd(q, 1)
RealOf(q) == IF q = RZero THEN RealZero ELSE [s \in {1} |-> Rat(q[1], q[2])]
Coef(x, s) == IF s \in DOMAIN x THEN x[s] ELSE RZero

\* the terms of f with a nonzero coefficient
NonZeroTerms(f) == [s \in {t \in DOMAIN f : f[t] # RZero} |-> f[s]]

RealAdd(x, y) ==
    NonZeroTerms([s \in DOMAIN x \cup DOMAIN y |-> RAdd(Coef(x, s), Coef(y, s))])

RealNeg(x) == [s \in DOMAIN x |-> RSub(RZero, x[s])]
RealSub(x, y) == RealAdd(x, RealNeg(y))

\* x * (c * sqrt(n))
RECURSIVE RealMulTerm(_, _, _, _)
RealMulTerm(x, todo, c, n) ==
    IF todo = {} THEN RealZero
    ELSE LET s == CHOOSE t \in todo : TRUE
         IN  RealAdd(Surd(RMul(x[s], c), s * n),
                     RealMulTerm(x, todo \ {s}, c, n))

RECURSIVE RealMulSum(_, _, _)
RealMulSum(x, y, todo) ==
    IF todo = {} THEN RealZero
    ELSE LET s == CHOOSE t \in todo : TRUE
         IN  RealAdd(RealMulTerm(x, DOMAIN x, y[s], s),
                     RealMulSum(x, y, todo \ {s}))

RealMul(x, y) == RealMulSum(x, y, DOMAIN y)


\* 1 / (c * sqrt(s)) = (1 / (c*s)) * sqrt(s), for a one-term x.  The solver
\* guards every division with DivisionByZero, so x = 0 is not evaluated by it.
RealInv(x) ==
    IF x = RealZero THEN RealZero
    ELSE LET s == CHOOSE t \in DOMAIN x : TRUE
         IN  [t \in {s} |-> RDiv(ROne, RMul(x[s], RInt(s)))]

RealDiv(x, y) == RealMul(x, RealInv(y))

\* math.sqrt of a rational q = n/d >= 0: sqrt(n) * sqrt(d) / d
RealSqrt(q) == RealMul(Surd(ROne, q[1]), Surd(<<1, q[2]>>, q[2]))

\* sign test for a real with at most one term
TermPositive(x) == \E s \in DOMAIN x : x[s][1] > 0

\* the product of the positive integers of xs is a 32-bit integer
RECURSIVE ProductFits(_, _)
ProductFits(xs, acc) ==
    IF xs = <<>> THEN TRUE
    ELSE /\ acc <= 2147483647 \div Head(xs)
         /\ ProductFits(Tail(xs), acc * Head(xs))

RECURSIVE Pow10(_)
Pow10(digits) == IF digits = 0 THEN 1 ELSE 10 * Pow10(digits - 1)

\* one more decimal digit of a square root (long-hand method): from
\* f = floor(sqrt(M)) and r = M - f*f to the same for 100 * M
RootStep(f, r) ==
    LET t == CHOOSE u \in 0..9 :
                /\ 20 * f * u + u * u <= 100 * r
                /\ u = 9 \/ 20 * f * (u + 1) + (u + 1) * (u + 1) > 100 * r
    IN  <<10 * f + t, 100 * r - 20 * f * t - t * t>>

\* <<f, r>> with f = floor(sqrt(N) * 10^digits), r = N * 100^digits - f*f
RECURSIVE RootDigits(_, _)
RootDigits(N, digits) ==
    IF digits = 0 THEN <<ISqrt(N), N - ISqrt(N) * ISqrt(N)>>
    ELSE CHOOSE out \in {RootStep(prev[1], prev[2]) :
                            prev \in {RootDigits(N, digits - 1)}} : TRUE

LCM(x, y) == (x \div GCD(x, y)) * y

\* the least common denominator of the coefficients of x
RECURSIVE DenLCM(_, _)
DenLCM(x, todo) ==
    IF todo = {} THEN 1
    ELSE LET s == CHOOSE t \in todo : TRUE
         IN  LCM(x[s][2], DenLCM(x, todo \ {s}))

\* integer bounds <<lo, hi>> of k * sqrt(s) * 10^digits, for an integer
\* k # 0 and a squarefree s: exact for s = 1, else strict, from the digits
\* of sqrt(k*k*s) when that fits and of sqrt(s) otherwise
ScaledTerm(k, s, digits) ==
    LET n == Abs(k)
        b == IF s = 1 THEN <<n * Pow10(digits), n * Pow10(digits)>>
             ELSE IF ProductFits(<<n, n, s>>, 1)
             THEN <<RootDigits(n * n * s, digits)[1], RootDigits(n * n * s, digits)[1] + 1>>
             ELSE <<n * RootDigits(s, digits)[1], n * (RootDigits(s, digits)[1] + 1)>>
    IN  IF k > 0 THEN b ELSE <<0 - b[2], 0 - b[1]>>

\* integer bounds of x * L * 10^digits, L a common denominator of x
RECURSIVE ScaledBounds(_, _, _, _)
ScaledBounds(x, L, todo, digits) ==
    IF todo = {} THEN <<0, 0>>
    ELSE LET s == CHOOSE t \in todo : TRUE
             b == ScaledTerm(x[s][1] * (L \div x[s][2]), s, digits)
             rest == ScaledBounds(x, L, todo \ {s}, digits)
         IN  <<b[1] + rest[1], b[2] + rest[2]>>

\* the sign of an x with an irrational term: digits are added until the
\* bounds exclude 0 (square roots of distinct squarefree numbers are linearly
\* independent over the rationals, so x # 0 and the bounds are strict)
RECURSIVE RealSignAt(_, _)
RealSignAt(x, digits) ==
    LET b == ScaledBounds(x, DenLCM(x, DOMAIN x), DOMAIN x, digits)
    IN  IF b[1] >= 0 THEN 1
        ELSE IF b[2] <= 0 THEN 0 - 1
        ELSE RealSignAt(x, digits + 1)

RealSign(x) ==
    IF x = RealZero THEN 0
    ELSE IF DOMAIN x = {1} THEN (IF x[1][1] > 0 THEN 1 ELSE 0 - 1)
    ELSE RealSignAt(x, 0)

\* x < y and x <= y on reals
RealLess(x, y) == RealSign(RealSub(x, y)) < 0
RealLeq(x, y) == RealSign(RealSub(x, y)) <= 0


\* --------------------------------------------------- outcome of a call
Returned(v) == [status |-> "returned", value |-> v]
Raised(e) == [status |-> e]

\* a division that yields a value instead of raising
DivisionByZero_Never(y) == FALSE

\* Python's x / y raises ZeroDivisionError when y is 0 (ints and floats)
DivisionByZero(y) == y = RealZero

\* ------------------------------------------------------------ step 1: rank
DollarUsage(it) == RMul(it.D, it.v)
\* a / (D * v), defined when D * v # 0
Ratio(it) == RDiv(it.a, DollarUsage(it))

\* list.sort(key=ratio) is stable: index i goes after every index whose
\* ratio is <= its own.  order is a sorted sequence of indices of items.
RECURSIVE RankInsert(_, _, _)
RankInsert(order, i, items) ==
    IF order = <<>> THEN <<i>>
    ELSE IF RLess(Ratio(items[i]), Ratio(items[Head(order)]))
         THEN <<i>> \o order
         ELSE <<Head(order)>> \o RankInsert(Tail(order), i, items)

RECURSIVE RankPrefix(_, _)
RankPrefix(items, n) ==
    IF n = 0 THEN <<>> ELSE RankInsert(RankPrefix(items, n - 1), n, items)

\* no sort: the items stay in input order
RankOrder_Unsorted(items) == [k \in 1..Len(items) |-> k]

\* the indices of items in ranking order (ordered_items = items o RankOrder)
RankOrder(items) == RankPrefix(items, Len(items))

OrderedItems(items) ==
    LET order == RankOrder(items) IN [j \in 1..Len(items) |-> items[order[j]]]

\* --------------------------------------------------- step 3: multipliers
\* the largest k >= k0 with k*k <= q
RECURSIVE FloorSqrt(_, _)
FloorSqrt(q, k) ==
    IF RLess(q, RInt((k + 1) * (k + 1))) THEN k ELSE FloorSqrt(q, k + 1)

\* int(math.sqrt(q)): the fraction is dropped
RoundSqrt_Floor(q) == FloorSqrt(q, 0)

\* a half goes away from zero
RoundSqrt_HalfUp(q) ==
    LET k == FloorSqrt(q, 0)
    IN  IF RLess(q, Rat((2 * k + 1) * (2 * k + 1), 4)) THEN k ELSE k + 1

\* round(math.sqrt(q)) for q >= 0: nearest integer, a half goes to the even
\* neighbour (Python 3 round)
RoundSqrt(q) ==
    LET k == FloorSqrt(q, 0)
        half == Rat((2 * k + 1) * (2 * k + 1), 4)    \* (k + 1/2)^2
    IN  IF RLess(q, half) THEN k
        ELSE IF RLess(half, q) THEN k + 1
        ELSE IF k % 2 = 0 THEN k ELSE k + 1

\* the argument of math.sqrt on line 83; its divisor
CandidateDivisor(it, base, A) == RMul(RAdd(A, base.a), DollarUsage(it))
\* the item's a * (D*v) where its ratio a / (D*v) belongs
CandidateSquare_Product(it, base, A) ==
    RDiv(RMul(it.a, DollarUsage(it)), RMul(RAdd(A, base.a), DollarUsage(base)))

CandidateSquare(it, base, A) ==
    RDiv(RMul(it.a, DollarUsage(base)), CandidateDivisor(it, base, A))

Max(x, y) == IF x >= y THEN x ELSE y
\* max(1, int(round(m_val)))
Multiplier(it, base, A) == Max(1, RoundSqrt(CandidateSquare(it, base, A)))

\* m_list = [1]: the multiplier of the base item (line 78)
BaseMultiplier_Two == 1 + 1
BaseMultiplier == 1

\* m_list, in ranking order
MList(ordered, A) ==
    [j \in 1..Len(ordered) |->
        IF j = 1 THEN BaseMultiplier ELSE Multiplier(ordered[j], ordered[1], A)]

\* ------------------------------------------------------------ step 4: T*
RECURSIVE RSum(_)
RSum(qs) == IF qs = <<>> THEN RZero ELSE RAdd(Head(qs), RSum(Tail(qs)))

RECURSIVE RealSum(_)
RealSum(xs) == IF xs = <<>> THEN RealZero ELSE RealAdd(Head(xs), RealSum(Tail(xs)))

\* the numerator without its factor 2
Numerator_NoTwo(ordered, m_list, A) ==
    RAdd(A, RSum([j \in 1..Len(ordered) |-> RDiv(ordered[j].a, RInt(m_list[j]))]))

Numerator(ordered, m_list, A) ==
    RMul(RInt(2),
         RAdd(A, RSum([j \in 1..Len(ordered) |-> RDiv(ordered[j].a, RInt(m_list[j]))])))

Denominator(ordered, m_list, r) ==
    RMul(r, RSum([j \in 1..Len(ordered) |->
                    RMul(DollarUsage(ordered[j]), RInt(m_list[j]))]))

TStar(ordered, m_list, A, r) ==
    RealSqrt(RDiv(Numerator(ordered, m_list, A), Denominator(ordered, m_list, r)))

\* ------------------------------------------------- step 5: per-item metrics
\* the divisors of compute_item_metrics for one item: 2 * v and m * T_star
MetricsRaise(items, T_star, m_list, r) ==
    \E j \in 1..Len(items) :
        \/ DivisionByZero(RealOf(RMul(RInt(2), items[j].v)))
        \/ DivisionByZero(RealMul(RealOf(RInt(m_list[j])), T_star))

\* The loop body of compute_item_metrics, cut where the code binds Qivi and
\* avg_inventory; each is computed once and then used as a value.

\* lines 49-62, with DiVi, Qivi and avg_inventory known
MetricsWithInventory(it, T_star, m, r, DiVi, Qivi, avg_inventory) ==
    [id |-> it.id, DiVi |-> DiVi, m |-> m, T_star |-> T_star, Qivi |-> Qivi,
     cycle_time |-> RealMul(RealOf(RInt(m)), T_star), avg_inventory |-> avg_inventory,
     annual_holding_cost |-> RealMul(RealMul(avg_inventory, RealOf(it.v)), RealOf(r)),
     annual_setup_cost |-> RealDiv(RealOf(it.a), RealMul(RealOf(RInt(m)), T_star))]

\* lines 45-62, with DiVi and Qivi known
MetricsWithQuantity(it, T_star, m, r, DiVi, Qivi) ==
    CHOOSE out \in {MetricsWithInventory(it, T_star, m, r, DiVi, Qivi, avg_inventory) :
                        avg_inventory \in {RealDiv(Qivi, RealOf(RMul(RInt(2), it.v)))}} : TRUE

\* lines 44-62, with DiVi known
MetricsWithUsage(it, T_star, m, r, DiVi) ==
    CHOOSE out \in {MetricsWithQuantity(it, T_star, m, r, DiVi, Qivi) :
                        Qivi \in {RealMul(RealMul(DiVi, RealOf(RInt(m))), T_star)}} : TRUE

ItemMetrics(it, T_star, m, r) ==
    CHOOSE out \in {MetricsWithUsage(it, T_star, m, r, DiVi) :
                        DiVi \in {RealOf(DollarUsage(it))}} : TRUE

ComputeItemMetrics(items, T_star, m_list, r) ==
    [j \in 1..Len(items) |-> ItemMetrics(items[j], T_star, m_list[j], r)]

\* ------------------------------------------------------ cost breakdown
TotalCostRaise(T) == DivisionByZero(T)

\* the total without the family setup cost
TotalCost_NoFamily(A, r, items, T, m_list) ==
    LET n == Len(items)
        item_setup ==
            RealSum([j \in 1..n |->
                RealDiv(RealOf(items[j].a), RealMul(RealOf(RInt(m_list[j])), T))])
        holding_sum ==
            RealSum([j \in 1..n |->
                RealDiv(RealMul(RealMul(RealMul(RealMul(RealOf(items[j].D),
                                                        RealOf(RInt(m_list[j]))), T),
                                        RealOf(items[j].v)), RealOf(r)),
                        RealOf(RInt(2)))])
    IN  [total |-> RealAdd(item_setup, holding_sum), family_setup |-> RealDiv(RealOf(A), T),
         item_setup |-> item_setup, holding |-> holding_sum]

\* line 24: holding_sum
HoldingSum(r, items, T, m_list) ==
    RealSum([j \in 1..Len(items) |->
        RealDiv(RealMul(RealMul(RealMul(RealMul(RealOf(items[j].D),
                                                RealOf(RInt(m_list[j]))), T),
                                RealOf(items[j].v)), RealOf(r)),
                RealOf(RInt(2)))])

\* lines 23-35; holding_sum is computed once and used twice
TotalCost(A, r, items, T, m_list) ==
    LET n == Len(items)
        group_over_T ==
            RealDiv(RealOf(RAdd(A, RSum([j \in 1..n |-> RDiv(items[j].a, RInt(m_list[j]))]))),
                    T)
        family_setup == RealDiv(RealOf(A), T)
        item_setup ==
            RealSum([j \in 1..n |->
                RealDiv(RealOf(items[j].a), RealMul(RealOf(RInt(m_list[j])), T))])
    IN  CHOOSE out \in
            {[total |-> RealAdd(group_over_T, holding_sum), family_setup |-> family_setup,
              item_setup |-> item_setup, holding |-> holding_sum] :
                holding_sum \in {HoldingSum(r, items, T, m_list)}} : TRUE

\* ------------------------------------------------ restore original order
\* id_to_result = {res["id"]: res ...}: a later result replaces an earlier one
\* with the same id; ordered_results = [id_to_result[it.id] for it in items]
IdToResult(item_results, id) ==
    LET js == {j \in 1..Len(item_results) : item_results[j].id = id}
    IN  item_results[CHOOSE j \in js : \A i \in js : i <= j]

\* the results left in ranking order
RestoreOrder_Ranked(items, item_results) == item_results

RestoreOrder(items, item_results) ==
    [k \in 1..Len(items) |-> IdToResult(item_results, items[k].id)]

\* ---------------------------------------------------- find_formula_policy
\* The body of find_formula_policy, cut where the code binds ordered_items,
\* m_list and T_star; each is computed once and then used as a value.

\* lines 93-111, with T_star known
PolicyWithCycle(p, ordered_items, m_list, T_star) ==
    IF MetricsRaise(ordered_items, T_star, m_list, p.r)
    THEN Raised("ZeroDivisionError")                              \* lines 46, 50
    ELSE IF TotalCostRaise(T_star)
    THEN Raised("ZeroDivisionError")                              \* line 23
    ELSE
    CHOOSE out \in
        {Returned([T_star |-> T_star,
                   m |-> [k \in 1..Len(p.items) |-> ordered_results[k].m],
                   item_results |-> ordered_results,
                   total_cost |-> cb.total, cost_breakdown |-> cb,
                   meta |-> [method |-> "formula"]]) :
            ordered_results \in
                {RestoreOrder(p.items,
                              ComputeItemMetrics(ordered_items, T_star, m_list, p.r))},
            cb \in {TotalCost(p.A, p.r, ordered_items, T_star, m_list)}} : TRUE

\* lines 86-111, with m_list known
PolicyWithMultipliers(p, ordered_items, m_list) ==
    IF \E j \in 1..Len(ordered_items) : m_list[j] = 0
    THEN Raised("ZeroDivisionError")                              \* line 87
    ELSE IF RLeq(Denominator(ordered_items, m_list, p.r), RZero)
    THEN Raised("ValueError")                                     \* line 90
    ELSE CHOOSE out \in {PolicyWithCycle(p, ordered_items, m_list, T_star) :
                            T_star \in {TStar(ordered_items, m_list, p.A, p.r)}} : TRUE

\* lines 77-111, with ordered_items known
PolicyRanked(p, ordered_items) ==
    IF \E j \in 2..Len(ordered_items) :
          CandidateDivisor(ordered_items[j], ordered_items[1], p.A) = RZero
    THEN Raised("ZeroDivisionError")                              \* line 83
    ELSE CHOOSE out \in {PolicyWithMultipliers(p, ordered_items, m_list) :
                            m_list \in {MList(ordered_items, p.A)}} : TRUE

FormulaPolicy(p) ==
    IF \E k \in 1..Len(p.items) : DollarUsage(p.items[k]) = RZero
    THEN Raised("ZeroDivisionError")                              \* line 73
    ELSE CHOOSE out \in {PolicyRanked(p, ordered_items) :
                            ordered_items \in {OrderedItems(p.items)}} : TRUE

\* a call of find_formula_policy: the argument is evaluated, then the body
FindFormulaPolicy(params) == CHOOSE out \in {FormulaPolicy(p) : p \in {params}} : TRUE

\* ------------------------------------------------ find_independent_policy
\* Python's None where a float is expected: no real has a term of radicand 0
None == (0 :> RZero)
\* the order quantity of an item that pays no major setup cost
EOQSquare_NoMajor(it, A, r) ==
    RDiv(RMul(RMul(RInt(2), it.a), it.D), RMul(r, it.v))

\* the divisors met for one item, in the order of the loop body: r * v
\* (line 138), D (line 139) and Q_i (line 143)
EOQSquare(it, A, r) ==
    RDiv(RMul(RMul(RInt(2), RAdd(A, it.a)), it.D), RMul(r, it.v))

IndependentRaise(it, A, r) ==
    \/ RMul(r, it.v) = RZero
    \/ DivisionByZero(RealOf(it.D))
    \/ DivisionByZero(RealSqrt(EOQSquare(it, A, r)))

\* The loop body of find_independent_policy, cut where the code binds Q_i,
\* avg_inventory and the two costs; each is computed once and then used as a
\* value.

\* an item total that leaves the holding cost out
IndependentWithCosts_NoHolding(it, Q_i, avg_inventory, annual_setup_cost, annual_holding_cost) ==
    [id |-> it.id, DiVi |-> RealOf(DollarUsage(it)), m |-> 1,
     cycle_time |-> RealDiv(Q_i, RealOf(it.D)),
     avg_inventory |-> avg_inventory, annual_holding_cost |-> annual_holding_cost,
     annual_setup_cost |-> annual_setup_cost, Q_i |-> Q_i,
     total_cost_item |-> annual_setup_cost]

\* lines 145-161, with Q_i, avg_inventory and the two costs known
IndependentWithCosts(it, Q_i, avg_inventory, annual_setup_cost, annual_holding_cost) ==
    [id |-> it.id, DiVi |-> RealOf(DollarUsage(it)), m |-> 1,
     cycle_time |-> RealDiv(Q_i, RealOf(it.D)),
     avg_inventory |-> avg_inventory, annual_holding_cost |-> annual_holding_cost,
     annual_setup_cost |-> annual_setup_cost, Q_i |-> Q_i,
     total_cost_item |-> RealAdd(annual_setup_cost, annual_holding_cost)]

\* lines 143-161, with Q_i and avg_inventory known
IndependentWithInventory(it, A, r, Q_i, avg_inventory) ==
    CHOOSE out \in
        {IndependentWithCosts(it, Q_i, avg_inventory, annual_setup_cost,
                              annual_holding_cost) :
            annual_setup_cost \in
                {RealMul(RealOf(RAdd(A, it.a)), RealDiv(RealOf(it.D), Q_i))},
            annual_holding_cost \in
                {RealMul(RealMul(avg_inventory, RealOf(it.v)), RealOf(r))}} : TRUE

\* lines 139-161, with Q_i known
IndependentWithQuantity(it, A, r, Q_i) ==
    CHOOSE out \in {IndependentWithInventory(it, A, r, Q_i, avg_inventory) :
                        avg_inventory \in {RealDiv(Q_i, RealOf(RInt(2)))}} : TRUE

IndependentItem(it, A, r) ==
    CHOOSE out \in {IndependentWithQuantity(it, A, r, Q_i) :
                        Q_i \in {RealSqrt(EOQSquare(it, A, r))}} : TRUE

\* the body of find_independent_policy
IndependentPolicy(p) ==
    LET items == p.items
        A == p.A
        r == p.r
        n == Len(items)
    IN
    IF \E k \in 1..n : IndependentRaise(items[k], A, r)
    THEN Raised("ZeroDivisionError")
    ELSE
    CHOOSE out \in
        {Returned([T_star |-> None, m |-> [k \in 1..n |-> 1],
                   item_results |-> item_results,
                   total_cost |-> RealSum([k \in 1..n |-> item_results[k].total_cost_item]),
                   cost_breakdown |->
                       [family_setup |-> None,
                        item_setup |->
                            RealSum([k \in 1..n |-> item_results[k].annual_setup_cost]),
                        holding |->
                            RealSum([k \in 1..n |-> item_results[k].annual_holding_cost])],
                   meta |-> [method |-> "independent_eoq"]]) :
            item_results \in {[k \in 1..n |-> IndependentItem(items[k], A, r)]}} : TRUE

\* a call of find_independent_policy: the argument is evaluated, then the body
FindIndependentPolicy(params) ==
    CHOOSE out \in {IndependentPolicy(p) : p \in {params}} : TRUE

\* -------------------------------------------------------- compare_policies
\* x or 0: None (and 0.0) count as 0
OrZero(t) == IF t = None THEN RealZero ELSE t

\* compare_policies of models/jrp_solver.py
ComparePolicies(sol1, sol2) ==
    Returned([T_star_diff |-> RealSub(OrZero(sol1.T_star), OrZero(sol2.T_star)),
              cost_diff |-> RealSub(sol1.total_cost, sol2.total_cost),
              better |-> IF RealLess(sol1.total_cost, sol2.total_cost)
                         THEN "Instance 1" ELSE "Instance 2",
              items_count_diff |-> Len(sol1.item_results) - Len(sol2.item_results)])

\* compare_policies of app.py, the one the application calls: None - float
\* raises TypeError
AppComparePolicies(sol1, sol2) ==
    IF sol1.T_star = None \/ sol2.T_star = None THEN Raised("TypeError")
    ELSE Returned([T_star_diff |-> RealSub(sol1.T_star, sol2.T_star),
                   cost_diff |-> RealSub(sol1.total_cost, sol2.total_cost),
                   better |-> IF RealLess(sol1.total_cost, sol2.total_cost)
                              THEN "Instance 1" ELSE "Instance 2"])

\* ------------------------------------------------ sensitivity sweeps
\* the parameter set solved for one sample (lines 182, 191, 204-215)
LocalParamsA(params, A_val) == [A |-> A_val, r |-> params.r, items |-> params.items]
LocalParamsR(params, r_val) == [A |-> params.A, r |-> r_val, items |-> params.items]

\* the sample replaces the field of every item, whatever its id
NewItem_AnyId(it, item_id, key, val) ==
    IF key = "a" THEN [id |-> it.id, a |-> val, D |-> it.D, v |-> it.v]
    ELSE IF key = "D" THEN [id |-> it.id, a |-> it.a, D |-> val, v |-> it.v]
    ELSE [id |-> it.id, a |-> it.a, D |-> it.D, v |-> val]

NewItem(it, item_id, key, val) ==
    IF it.id = item_id
    THEN IF key = "a" THEN [id |-> it.id, a |-> val, D |-> it.D, v |-> it.v]
         ELSE IF key = "D" THEN [id |-> it.id, a |-> it.a, D |-> val, v |-> it.v]
         ELSE [id |-> it.id, a |-> it.a, D |-> it.D, v |-> val]
    ELSE it

LocalParamsItem(params, item_id, key, val) ==
    [A |-> params.A, r |-> params.r,
     items |-> [k \in 1..Len(params.items) |-> NewItem(params.items[k], item_id, key, val)]]

ValidKeys == {"a", "D", "v"}

\* every sample solved with the first sample's value
LocalParams_Stale(params, c, val) ==
    IF c.op = "sensitivity_curve_over_A" THEN LocalParamsA(params, c.values[1])
    ELSE IF c.op = "sensitivity_curve_over_r" THEN LocalParamsR(params, c.values[1])
    ELSE LocalParamsItem(params, c.item_id, c.key, c.values[1])

LocalParams(params, c, val) ==
    IF c.op = "sensitivity_curve_over_A" THEN LocalParamsA(params, val)
    ELSE IF c.op = "sensitivity_curve_over_r" THEN LocalParamsR(params, val)
    ELSE LocalParamsItem(params, c.item_id, c.key, val)

\* ================================================================ state
VARIABLES
    params,    \* the caller's parameter set (JRPParams)
    pc,        \* "idle": between calls; "sweep": inside a sweep's loop;
               \* "done": the last call has returned or raised
    call,      \* the call in progress or last made, with its arguments
    result,    \* its outcome: Returned(value) or Raised(exception)
    i,         \* sweep loop: index of the next sample
    x_vals,    \* sweep loop: locals x_vals, y_vals
    y_vals,
    solves     \* number of find_formula_policy invocations made by the call

vars == <<params, pc, call, result, i, x_vals, y_vals, solves>>

\* ---------------------------------------------------------------- inputs
IdPool == <<"i1", "i2", "i3", "i4", "i5">>
\* ids are only compared for equality: names are taken in the order of
\* IdPool (a name is used only after the names before it), which gives every
\* pattern of equal and distinct ids
IdLists(n) == {ids \in [1..n -> {IdPool[k] : k \in 1..n}] :
                  \A k \in 1..n : \E j \in 1..k :
                      /\ ids[k] = IdPool[j]
                      /\ \A h \in 1..(j - 1) : \E g \in 1..(k - 1) : ids[g] = IdPool[h]}

Values(max) == {RInt(x) : x \in 0..max}

ItemLists(n, maxa, maxD, maxv) ==
    {[k \in 1..n |-> [id |-> ids[k], a |-> c[k].a, D |-> c[k].D, v |-> c[k].v]] :
        ids \in IdLists(n),
        c \in [1..n -> [a : Values(maxa), D : Values(maxD), v : Values(maxv)]]}

ParamSpace(maxItems, maxA, maxr, maxa, maxD, maxv) ==
    {[A |-> A, r |-> r, items |-> items] :
        A \in Values(maxA), r \in Values(maxr),
        items \in UNION {ItemLists(n, maxa, maxD, maxv) : n \in 1..maxItems}}

SampleLists ==
    UNION {[1..n -> Values(MaxSampleValue)] : n \in 0..MaxSamples}

Idle ==
    /\ pc = "idle"
    /\ call = [op |-> "none"]
    /\ result = [status |-> "none"]
    /\ i = 0
    /\ x_vals = <<>>
    /\ y_vals = <<>>
    /\ solves = 0

Init ==
    /\ params \in ParamSpace(MaxItems, MaxMajor, MaxRate, MaxSetup, MaxDemand, MaxValue)
    /\ Idle

SweepInit ==
    /\ params \in ParamSpace(MaxSweepItems, MaxSweepInput, MaxSweepInput,
                             MaxSweepInput, MaxSweepInput, MaxSweepInput)
    /\ Idle

\* the application's demo instance Small_Example (r = 0.24, v = 2.5 for 5L)
ExampleSmall ==
    [A |-> RInt(40), r |-> Rat(24, 100),
     items |-> <<[id |-> "1L", a |-> RInt(15), D |-> RInt(500), v |-> RInt(2)],
                 [id |-> "5L", a |-> RInt(15), D |-> RInt(300), v |-> Rat(5, 2)],
                 [id |-> "10L", a |-> RInt(15), D |-> RInt(200), v |-> RInt(3)]>>]

\* major setup costs of the wide parameter sets: 0..MaxMajor and a small
\* fraction of the unit
WideMajor == Values(MaxMajor) \cup {Rat(1, MajorDivisor)}

\* parameter sets of few items with a wide range of a and D, and the demo
\* instance
WideInit ==
    /\ \/ params = ExampleSmall
       \/ \E p \in ParamSpace(MaxWideItems, 0, MaxRate, MaxWideSetup, MaxWideDemand,
                               MaxValue),
             A \in WideMajor : params = [p EXCEPT !.A = A]
    /\ Idle

\* --------------------------------------------------------------- actions
\* the caller solves its parameter set with the joint policy
CallFormula ==
    /\ pc = "idle"
    /\ call' = [op |-> "find_formula_policy"]
    /\ result' = FindFormulaPolicy(params)
    /\ solves' = 1
    /\ pc' = "done"
    /\ UNCHANGED <<params, i, x_vals, y_vals>>

\* the caller solves its parameter set with the independent policy
CallIndependent ==
    /\ pc = "idle"
    /\ call' = [op |-> "find_independent_policy"]
    /\ result' = FindIndependentPolicy(params)
    /\ solves' = 0
    /\ pc' = "done"
    /\ UNCHANGED <<params, i, x_vals, y_vals>>

EnterLoop ==
    /\ pc' = "sweep"
    /\ result' = [status |-> "running"]
    /\ i' = 1
    /\ x_vals' = <<>>
    /\ y_vals' = <<>>
    /\ solves' = 0
    /\ UNCHANGED params

CallSweepA ==
    /\ pc = "idle"
    /\ \E A_values \in SampleLists :
          call' = [op |-> "sensitivity_curve_over_A", values |-> A_values]
    /\ EnterLoop

CallSweepR ==
    /\ pc = "idle"
    /\ \E r_values \in SampleLists :
          call' = [op |-> "sensitivity_curve_over_r", values |-> r_values]
    /\ EnterLoop

\* item ids of the parameter set and one that names no item
SweepIds == {params.items[k].id : k \in 1..Len(params.items)} \cup {"none"}
SweepKeys == ValidKeys \cup {"x"}

CallSweepItem ==
    /\ pc = "idle"
    /\ \E item_id \in SweepIds, key \in ValidKeys, values \in SampleLists :
          call' = [op |-> "sensitivity_curve_over_item", item_id |-> item_id,
                   key |-> key, values |-> values]
    /\ EnterLoop

\* the key is not checked before the loop
CallSweepItemBadKey_Late ==
    /\ pc = "idle"
    /\ \E item_id \in SweepIds, key \in SweepKeys \ ValidKeys, values \in SampleLists :
          call' = [op |-> "sensitivity_curve_over_item", item_id |-> item_id,
                   key |-> key, values |-> values]
    /\ EnterLoop

\* lines 198-200: an unknown key raises before the loop
CallSweepItemBadKey ==
    /\ pc = "idle"
    /\ \E item_id \in SweepIds, key \in SweepKeys \ ValidKeys, values \in SampleLists :
          call' = [op |-> "sensitivity_curve_over_item", item_id |-> item_id,
                   key |-> key, values |-> values]
    /\ result' = Raised("ValueError")
    /\ pc' = "done"
    /\ solves' = 0
    /\ UNCHANGED <<params, i, x_vals, y_vals>>

\* an iteration that records the sample and its cost at the front
SweepSolve_Prepend ==
    /\ pc = "sweep"
    /\ i <= Len(call.values)
    /\ \E val \in {call.values[i]} :
       \E sol \in {FindFormulaPolicy(LocalParams(params, call, val))} :
           /\ sol.status = "returned"
           /\ x_vals' = <<val>> \o x_vals
           /\ y_vals' = <<sol.value.total_cost>> \o y_vals
    /\ i' = i + 1
    /\ solves' = solves + 1
    /\ UNCHANGED <<params, pc, call, result>>

\* an iteration that stores the sample into the caller's parameter set
SweepSolve_WriteBack ==
    /\ pc = "sweep"
    /\ i <= Len(call.values)
    /\ \E val \in {call.values[i]} :
       \E sol \in {FindFormulaPolicy(LocalParams(params, call, val))} :
           /\ sol.status = "returned"
           /\ x_vals' = Append(x_vals, val)
           /\ y_vals' = Append(y_vals, sol.value.total_cost)
           /\ params' = LocalParams(params, call, val)
    /\ i' = i + 1
    /\ solves' = solves + 1
    /\ UNCHANGED <<pc, call, result>>

\* one iteration of the loop: solve the next sample and record it
SweepSolve ==
    /\ pc = "sweep"
    /\ i <= Len(call.values)
    /\ \E val \in {call.values[i]} :
       \E sol \in {FindFormulaPolicy(LocalParams(params, call, val))} :
           /\ sol.status = "returned"
           /\ x_vals' = Append(x_vals, val)
           /\ y_vals' = Append(y_vals, sol.value.total_cost)
    /\ i' = i + 1
    /\ solves' = solves + 1
    /\ UNCHANGED <<params, pc, call, result>>

\* a failing sample ends the loop with what has been collected so far
SweepFail_Partial ==
    /\ pc = "sweep"
    /\ i <= Len(call.values)
    /\ \E sol \in {FindFormulaPolicy(LocalParams(params, call, call.values[i]))} :
           /\ sol.status # "returned"
           /\ result' = Returned(<<x_vals, y_vals>>)
    /\ pc' = "done"
    /\ i' = 0
    /\ x_vals' = <<>>
    /\ y_vals' = <<>>
    /\ solves' = solves + 1
    /\ UNCHANGED <<params, call>>

\* one iteration of the loop: the solve raises and the sweep propagates it
SweepFail ==
    /\ pc = "sweep"
    /\ i <= Len(call.values)
    /\ \E sol \in {FindFormulaPolicy(LocalParams(params, call, call.values[i]))} :
           /\ sol.status # "returned"
           /\ result' = Raised(sol.status)
    /\ pc' = "done"
    /\ i' = 0
    /\ x_vals' = <<>>
    /\ y_vals' = <<>>
    /\ solves' = solves + 1
    /\ UNCHANGED <<params, call>>

\* the loop is over: return x_vals, y_vals
SweepReturn ==
    /\ pc = "sweep"
    /\ i > Len(call.values)
    /\ result' = Returned(<<x_vals, y_vals>>)
    /\ pc' = "done"
    /\ i' = 0
    /\ x_vals' = <<>>
    /\ y_vals' = <<>>
    /\ UNCHANGED <<params, call, solves>>

\* the caller is done with the outcome of its last call and may call again
Discard ==
    /\ pc = "done"
    /\ pc' = "idle"
    /\ call' = [op |-> "none"]
    /\ result' = [status |-> "none"]
    /\ solves' = 0
    /\ UNCHANGED <<params, i, x_vals, y_vals>>

\* the two ways of computing a Solution
PolicyKinds == {"formula", "independent"}
Solve(kind, p) ==
    IF kind = "formula" THEN FindFormulaPolicy(p) ELSE FindIndependentPolicy(p)

\* the parameter sets of the second operand of a comparison
CompareSpace ==
    ParamSpace(MaxSweepItems, MaxSweepInput, MaxSweepInput,
               MaxSweepInput, MaxSweepInput, MaxSweepInput)

\* compare_policies of the solver on two computed Solutions: one of params,
\* one of a second parameter set, each joint or independent
CallCompare ==
    /\ pc = "idle"
    /\ \E kind1 \in PolicyKinds : \E s1 \in {Solve(kind1, params)} :
          /\ s1.status = "returned"
          /\ \E kind2 \in PolicyKinds, params2 \in CompareSpace :
                \E s2 \in {Solve(kind2, params2)} :
                   /\ s2.status = "returned"
                   /\ call' = [op |-> "compare_policies",
                               sol1 |-> s1.value, sol2 |-> s2.value]
                   /\ result' = ComparePolicies(s1.value, s2.value)
    /\ pc' = "done"
    /\ solves' = 0
    /\ UNCHANGED <<params, i, x_vals, y_vals>>

\* Comparison Mode of the application (app.py lines 207-208, 245): both
\* instances are solved jointly, then its own compare_policies is called
CallAppCompare ==
    /\ pc = "idle"
    /\ \E s1 \in {FindFormulaPolicy(params)} :
          /\ s1.status = "returned"
          /\ \E params2 \in CompareSpace : \E s2 \in {FindFormulaPolicy(params2)} :
                /\ s2.status = "returned"
                /\ call' = [op |-> "app.compare_policies",
                            sol1 |-> s1.value, sol2 |-> s2.value]
                /\ result' = AppComparePolicies(s1.value, s2.value)
    /\ pc' = "done"
    /\ solves' = 2
    /\ UNCHANGED <<params, i, x_vals, y_vals>>

Next == CallFormula \/ CallIndependent \/ Discard

Spec == Init /\ [][Next]_vars

SweepNext ==
    \/ CallFormula
    \/ CallIndependent
    \/ CallSweepA
    \/ CallSweepR
    \/ CallSweepItem
    \/ CallSweepItemBadKey
    \/ SweepSolve
    \/ SweepFail
    \/ SweepReturn
    \/ Discard

SweepSpec == SweepInit /\ [][SweepNext]_vars

WideSpec == WideInit /\ [][Next]_vars

CompareInit == params \in CompareSpace /\ Idle

CompareNext == CallCompare \/ CallAppCompare \/ Discard

CompareSpec == CompareInit /\ [][CompareNext]_vars

\* ================================================================ claims
FormulaDone == pc = "done" /\ call.op = "find_formula_policy"
FormulaReturned == FormulaDone /\ result.status = "returned"
IndependentDone == pc = "done" /\ call.op = "find_independent_policy"

DistinctIds(items) ==
    \A j, k \in 1..Len(items) : j # k => items[j].id # items[k].id
UsagePositive(items) == \A k \in 1..Len(items) : DollarUsage(items[k]) # RZero
\* item k has the smallest ratio a/(D*v)
MinRatio(items, k) == \A j \in 1..Len(items) : RLeq(Ratio(items[k]), Ratio(items[j]))
UniqueMinRatio(items) == Cardinality({k \in 1..Len(items) : MinRatio(items, k)}) = 1
\* the position of input item k in the ranking
RankOf(items, k) == CHOOSE j \in 1..Len(items) : RankOrder(items)[j] = k
\* the multiplier step 3 computes for input item k
MultiplierOf(p, k) == MList(OrderedItems(p.items), p.A)[RankOf(p.items, k)]

\* the returned multipliers are integers >= 1 and every smallest-ratio item
\* has multiplier 1, in 'm' and in its per-item result
BaseHasOne(p, sol) ==
    /\ Len(sol.m) = Len(p.items)
    /\ \A k \in 1..Len(p.items) :
          /\ sol.m[k] \in Nat /\ sol.m[k] >= 1
          /\ sol.item_results[k].m \in Nat /\ sol.item_results[k].m >= 1
          /\ MinRatio(p.items, k) => sol.m[k] = 1 /\ sol.item_results[k].m = 1

\* C1 as stated: whenever find_formula_policy returns, on any valid
\* parameter set, the smallest-ratio item has multiplier exactly 1 in 'm' and
\* in its per-item result, and every multiplier is an integer >= 1.
C1_Original == FormulaReturned => BaseHasOne(params, result.value)

\* C1 amended: the same, for parameter sets whose item ids are pairwise
\* distinct.
C1_BaseMultiplierOne ==
    FormulaReturned /\ DistinctIds(params.items) => BaseHasOne(params, result.value)

\* a returned solve of distinct ids where the smallest-ratio item is not the
\* first input item and some other item has a multiplier above 1
C1_Witness ==
    /\ FormulaReturned /\ DistinctIds(params.items)
    /\ ~MinRatio(params.items, 1)
    /\ \E k \in 1..Len(params.items) : result.value.m[k] >= 2

\* position k of the output holds what was computed for input item k
ResultsInInputOrder(p, sol) ==
    /\ Len(sol.item_results) = Len(p.items)
    /\ Len(sol.m) = Len(p.items)
    /\ \A k \in 1..Len(p.items) :
          /\ sol.m[k] = MultiplierOf(p, k)
          /\ sol.item_results[k] =
                ItemMetrics(p.items[k], sol.T_star, MultiplierOf(p, k), p.r)

\* C2 as stated: whenever find_formula_policy returns, item_results and m
\* have the length of the input and position k holds the metrics and the
\* multiplier computed for the k-th input item.
C2_Original == FormulaReturned => ResultsInInputOrder(params, result.value)

\* C2 amended: the same, for parameter sets whose item ids are pairwise
\* distinct.
C2_InputOrder ==
    FormulaReturned /\ DistinctIds(params.items) =>
        ResultsInInputOrder(params, result.value)

\* a returned solve of distinct ids whose ranking differs from the input
\* order and whose multipliers are not all equal
C2_Witness ==
    /\ FormulaReturned /\ DistinctIds(params.items)
    /\ RankOrder(params.items) # [k \in 1..Len(params.items) |-> k]
    /\ \E j, k \in 1..Len(params.items) : result.value.m[j] # result.value.m[k]

\* the parameter set with its items permuted by f
Permuted(p, f) ==
    [A |-> p.A, r |-> p.r, items |-> [k \in 1..Len(p.items) |-> p.items[f[k]]]]

\* two solutions agree on T*, the total cost and, id by id, on the
\* multipliers and the per-item metrics
SameById(p, sol, q, other) ==
    /\ other.T_star = sol.T_star
    /\ other.total_cost = sol.total_cost
    /\ \A j \in 1..Len(p.items), k \in 1..Len(q.items) :
          p.items[j].id = q.items[k].id =>
              /\ other.m[k] = sol.m[j]
              /\ other.item_results[k] = sol.item_results[j]

PermutationInvariant(p, sol) ==
    \A f \in Permutations(1..Len(p.items)) :
        LET other == FindFormulaPolicy(Permuted(p, f))
        IN  /\ other.status = "returned"
            /\ SameById(p, sol, Permuted(p, f), other.value)

\* C3 as stated: the solve of any permutation of the items yields, for each
\* item id, the same multiplier and metrics, and the same T* and total cost,
\* ties for the smallest ratio included.
C3_Original == FormulaReturned => PermutationInvariant(params, result.value)

\* C3 amended: the same, for parameter sets with pairwise distinct ids in
\* which exactly one item attains the smallest ratio.
C3_PermutationInvariant ==
    FormulaReturned /\ DistinctIds(params.items) /\ UniqueMinRatio(params.items) =>
        PermutationInvariant(params, result.value)

\* a returned solve of three distinct ids, one smallest ratio, not in ranking
\* order, with a multiplier above 1
C3_Witness ==
    /\ FormulaReturned /\ DistinctIds(params.items) /\ UniqueMinRatio(params.items)
    /\ Len(params.items) = 3
    /\ RankOrder(params.items) # <<1, 2, 3>>
    /\ \E k \in 1..3 : result.value.m[k] >= 2

\* C4: the returned total cost is family_setup + item_setup + holding, with
\* family_setup = A/T*, item_setup = sum a_i/(m_i T*) and
\* holding = sum D_i m_i T* v_i r / 2.
C4_TotalIsSum ==
    FormulaReturned =>
        LET sol == result.value
            cb == sol.cost_breakdown
            T == sol.T_star
            n == Len(params.items)
            m(k) == RealOf(RInt(MultiplierOf(params, k)))
            it(k) == params.items[k]
        IN  /\ sol.total_cost = RealAdd(RealAdd(cb.family_setup, cb.item_setup), cb.holding)
            /\ cb.family_setup = RealDiv(RealOf(params.A), T)
            /\ cb.item_setup =
                  RealSum([k \in 1..n |-> RealDiv(RealOf(it(k).a), RealMul(m(k), T))])
            /\ cb.holding =
                  RealSum([k \in 1..n |->
                      RealDiv(RealMul(RealOf(RMul(RMul(it(k).D, it(k).v), params.r)),
                                      RealMul(m(k), T)),
                              RealOf(RInt(2)))])

\* a returned solve with a positive family setup cost, several items and a
\* multiplier above 1
C4_Witness ==
    /\ FormulaReturned
    /\ params.A # RZero
    /\ Len(params.items) >= 2
    /\ \E k \in 1..Len(params.items) : result.value.m[k] >= 2
    /\ result.value.cost_breakdown.item_setup # RealZero

\* C5 as stated, on its own example: with r = 0 and every D_i*v_i > 0 the T*
\* denominator r * sum(D_i v_i m_i) is 0, and find_formula_policy fails with
\* the error of the denominator check (ValueError).
C5_Claim ==
    FormulaDone /\ params.r = RZero /\ UsagePositive(params.items) =>
        result.status = "ValueError"

\* C6 as stated: if some item has D*v = 0, find_formula_policy raises the
\* error kind of the T* denominator check (ValueError).
C6_Claim ==
    FormulaDone /\ ~UsagePositive(params.items) => result.status = "ValueError"

\* C7 as stated: if some item has r*v = 0, find_independent_policy raises
\* the error kind find_formula_policy uses (ValueError) and returns nothing.
C7_Claim ==
    IndependentDone
    /\ (\E k \in 1..Len(params.items) : RMul(params.r, params.items[k].v) = RZero)
    => result.status = "ValueError"

\* C8 as stated: on a parameter set meeting the data-model invariants,
\* find_formula_policy returns a Solution or raises the error of the T*
\* denominator check (ValueError); no other failure escapes.
C8_Claim == FormulaDone => result.status \in {"returned", "ValueError"}

\* C9: a returned joint solution has T_star > 0 and every per-item
\* cycle_time m_i * T_star > 0.
C9_PositiveCycle ==
    FormulaReturned =>
        /\ TermPositive(result.value.T_star)
        /\ \A k \in 1..Len(params.items) :
              TermPositive(result.value.item_results[k].cycle_time)

\* a returned solve of several items whose minor setup costs are all 0 (only
\* the major setup cost keeps T* away from 0)
C9_Witness ==
    /\ FormulaReturned
    /\ Len(params.items) >= 2
    /\ \A k \in 1..Len(params.items) : params.items[k].a = RZero

SweepOps == {"sensitivity_curve_over_A", "sensitivity_curve_over_r",
             "sensitivity_curve_over_item"}
SweepReturned == pc = "done" /\ call.op \in SweepOps /\ result.status = "returned"

\* C10: a sweep whose samples all solve returns two sequences of the length
\* of the samples; the first is the samples in input order and the k-th cost
\* is the joint total cost for the k-th sample.
C10_SweepInOrder ==
    SweepReturned =>
        LET xs == result.value[1]
            ys == result.value[2]
            N == Len(call.values)
        IN  /\ Len(xs) = N
            /\ Len(ys) = N
            /\ xs = call.values
            /\ \A k \in 1..N :
                  ys[k] = FindFormulaPolicy(LocalParams(params, call, call.values[k]))
                              .value.total_cost

\* a returned sweep of two different samples with two different costs
C10_Witness ==
    /\ SweepReturned
    /\ Len(call.values) = 2
    /\ call.values[1] # call.values[2]
    /\ result.value[2][1] # result.value[2][2]

\* the base parameters with only the targeted field replaced by val: A, r,
\* or attribute key of the items named item_id
Substituted(p, c, val) ==
    IF c.op = "sensitivity_curve_over_A" THEN [p EXCEPT !.A = val]
    ELSE IF c.op = "sensitivity_curve_over_r" THEN [p EXCEPT !.r = val]
    ELSE [p EXCEPT !.items =
            [k \in 1..Len(p.items) |->
                IF p.items[k].id = c.item_id
                THEN [p.items[k] EXCEPT ![c.key] = val]
                ELSE p.items[k]]]

\* find_formula_policy applied directly to the k-th sample of the call
DirectSolve(p, c, k) == FindFormulaPolicy(Substituted(p, c, c.values[k]))

\* the costs ys are those of the direct solves of the first Len(ys) samples
CostsAreDirect(p, c, ys) ==
    \A k \in 1..Len(ys) :
        /\ DirectSolve(p, c, k).status = "returned"
        /\ ys[k] = DirectSolve(p, c, k).value.total_cost

\* C11: in every sweep (over A, over r, over an item attribute) the k-th
\* cost, while the loop runs and in the returned result, is the total cost
\* of find_formula_policy on the base parameters with only the targeted
\* field replaced by the k-th sample; it depends on no other sample.
C11_SweepEqualsDirect ==
    /\ pc = "sweep" => CostsAreDirect(params, call, y_vals)
    /\ SweepReturned =>
          /\ Len(result.value[2]) = Len(call.values)
          /\ CostsAreDirect(params, call, result.value[2])

\* a returned sweep over the demand of an existing item: two different
\* samples, both different from the item's own demand, with different costs
C11_Witness ==
    /\ SweepReturned
    /\ call.op = "sensitivity_curve_over_item"
    /\ call.key = "D"
    /\ Len(call.values) = 2
    /\ call.values[1] # call.values[2]
    /\ \E k \in 1..Len(params.items) :
          /\ params.items[k].id = call.item_id
          /\ params.items[k].D \notin {call.values[1], call.values[2]}
    /\ result.value[2][1] # result.value[2][2]

BadKeyCall == call.op = "sensitivity_curve_over_item" /\ call.key \notin ValidKeys

\* C12: sensitivity_curve_over_item with a key outside {a, D, v} never
\* enters the loop: the call ends with the ValueError of the key check and
\* find_formula_policy has been invoked zero times, whatever the samples.
C12_BadKeyFailsFast ==
    BadKeyCall => pc = "done" /\ result = Raised("ValueError") /\ solves = 0

\* a bad-key call on an existing item whose first sample could not be solved
\* as a demand of that item
C12_Witness ==
    /\ pc = "done" /\ BadKeyCall
    /\ Len(call.values) >= 1
    /\ \E k \in 1..Len(params.items) : params.items[k].id = call.item_id
    /\ FindFormulaPolicy(LocalParamsItem(params, call.item_id, "D", call.values[1])).status
          # "returned"
    /\ FindFormulaPolicy(params).status = "returned"

\* a sweep that got past the key check and has ended
SweepDone == pc = "done" /\ call.op \in SweepOps /\ ~BadKeyCall
\* the samples whose direct solve fails
FailingSamples(p, c) ==
    {k \in 1..Len(c.values) : DirectSolve(p, c, k).status # "returned"}

\* C13: if the joint solve fails for some sample, the sweep ends with the
\* error of the first failing sample k, exactly k solves have been made
\* (none after k), and the outcome carries no (values, costs) result.
C13_FailurePropagates ==
    SweepDone /\ FailingSamples(params, call) # {} =>
        LET k == CHOOSE j \in FailingSamples(params, call) :
                    \A h \in FailingSamples(params, call) : j <= h
        IN  /\ result = Raised(DirectSolve(params, call, k).status)
            /\ "value" \notin DOMAIN result
            /\ solves = k

\* a sweep that failed at its second sample, after solving the first
C13_Witness ==
    /\ SweepDone
    /\ result.status \notin {"returned", "none", "running"}
    /\ solves = 2
    /\ Len(call.values) = 2

CompareDone == pc = "done" /\ call.op \in {"compare_policies", "app.compare_policies"}

\* what C14 says compare_policies(sol1, sol2) returns
ComparisonOf(sol1, sol2, out) ==
    /\ out.status = "returned"
    /\ DOMAIN out.value = {"T_star_diff", "cost_diff", "better", "items_count_diff"}
    /\ out.value.T_star_diff =
          RealSub(IF sol1.T_star = None THEN RealZero ELSE sol1.T_star,
                  IF sol2.T_star = None THEN RealZero ELSE sol2.T_star)
    /\ out.value.cost_diff = RealSub(sol1.total_cost, sol2.total_cost)
    /\ out.value.items_count_diff = Len(sol1.item_results) - Len(sol2.item_results)
    /\ out.value.better \in {"Instance 1", "Instance 2"}
    /\ out.value.better = "Instance 1" <=>
          /\ sol1.total_cost # sol2.total_cost
          /\ RealSign(RealSub(sol2.total_cost, sol1.total_cost)) = 1

\* C14 as stated, for both functions named compare_policies: the result has
\* T_star_diff = T1 - T2 (None as 0), cost_diff, items_count_diff and
\* better = 'Instance 1' exactly when total_cost1 < total_cost2.
C14_Claim == CompareDone => ComparisonOf(call.sol1, call.sol2, result)

\* the same, for compare_policies of models/jrp_solver.py alone
C14_SolverCompare ==
    pc = "done" /\ call.op = "compare_policies" =>
        ComparisonOf(call.sol1, call.sol2, result)

IndependentReturned == IndependentDone /\ result.status = "returned"

\* C15: a returned independent solution has T_star None, family_setup
\* None, m = [1, ..., 1] of the length of the items, per-item results in
\* input order each with m = 1, and total_cost = item_setup + holding = the
\* sum of the per-item total costs.
C15_IndependentShape ==
    IndependentReturned =>
        LET sol == result.value
            n == Len(params.items)
        IN  /\ sol.T_star = None
            /\ sol.cost_breakdown.family_setup = None
            /\ sol.m = [k \in 1..n |-> 1]
            /\ Len(sol.item_results) = n
            /\ \A k \in 1..n :
                  /\ sol.item_results[k].m = 1
                  /\ sol.item_results[k].id = params.items[k].id
                  /\ sol.item_results[k].DiVi =
                        RealOf(RMul(params.items[k].D, params.items[k].v))
                  /\ sol.item_results[k].Q_i =
                        RealSqrt(RDiv(RMul(RInt(2), RMul(RAdd(params.A, params.items[k].a),
                                                         params.items[k].D)),
                                      RMul(params.r, params.items[k].v)))
            /\ sol.total_cost =
                  RealAdd(sol.cost_breakdown.item_setup, sol.cost_breakdown.holding)
            /\ sol.total_cost =
                  RealSum([k \in 1..n |-> sol.item_results[k].total_cost_item])

\* a returned independent solve of three items with three different order
\* quantities and a positive major setup cost
C15_Witness ==
    /\ IndependentReturned
    /\ Len(params.items) = 3
    /\ params.A # RZero
    /\ Cardinality({result.value.item_results[k].Q_i : k \in 1..3}) = 3

\* |x - q| < tol
Near(x, q, tol) ==
    /\ RealLess(RealOf(RSub(q, tol)), x)
    /\ RealLess(x, RealOf(RAdd(q, tol)))

\* one unit of the last digit shown: of a cost, of a cycle time
Cent == Rat(1, 100)
TenThousandth == Rat(1, 10000)

\* C16: on A=40, r=0.24, items 1L (15, 500, 2.0), 5L (15, 300, 2.5), 10L
\* (15, 200, 3.0), find_formula_policy ranks 1L, 5L, 10L, gives every item
\* multiplier 1, and returns T*^2 = 170/564 (T* ~ 0.5490), total cost
\* ~ 309.64, family_setup ~ 72.86, item_setup ~ 81.96, holding ~ 154.82.
C16_Fixture ==
    FormulaDone /\ params = ExampleSmall =>
        /\ result.status = "returned"
        /\ LET ordered_items == OrderedItems(params.items)
           IN  [j \in 1..3 |-> ordered_items[j].id] = <<"1L", "5L", "10L">>
        /\ result.value.m = <<1, 1, 1>>
        /\ \A k \in 1..3 : result.value.item_results[k].m = 1
        /\ RealMul(result.value.T_star, result.value.T_star) = RealOf(Rat(170, 564))
        /\ Near(result.value.T_star, Rat(5490, 10000), TenThousandth)
        /\ Near(result.value.total_cost, Rat(30964, 100), Cent)
        /\ Near(result.value.cost_breakdown.family_setup, Rat(7286, 100), Cent)
        /\ Near(result.value.cost_breakdown.item_setup, Rat(8196, 100), Cent)
        /\ Near(result.value.cost_breakdown.holding, Rat(15482, 100), Cent)

\* the joint solve of the demo instance has returned
C16_Witness == FormulaReturned /\ params = ExampleSmall

\* the joint solve has returned and the independent solve of the same
\* parameter set returns too
BothReturned == FormulaReturned /\ FindIndependentPolicy(params).status = "returned"
IndependentTotal == FindIndependentPolicy(params).value.total_cost

\* C17 as stated: for every valid parameter set with A > 0 on which both
\* policies succeed, the joint total cost is <= the independent total cost.
C17_Original ==
    BothReturned /\ RLess(RZero, params.A) =>
        RealLeq(result.value.total_cost, IndependentTotal)

\* C17 amended: on the demo instance the joint total cost (~309.64) is
\* below the independent total cost (~429.05); on a single-item parameter
\* set the two total costs are equal.
C17_FixtureJointBelow ==
    /\ BothReturned /\ params = ExampleSmall =>
          /\ RealLess(result.value.total_cost, IndependentTotal)
          /\ Near(result.value.total_cost, Rat(30964, 100), Cent)
          /\ Near(IndependentTotal, Rat(42905, 100), Cent)
    /\ BothReturned /\ Len(params.items) = 1 =>
          result.value.total_cost = IndependentTotal

\* both policies have been computed for the demo instance
C17_Witness ==
    /\ BothReturned
    /\ params = ExampleSmall
    /\ Len(result.value.item_results) = 3

\* C18: no step of find_formula_policy, find_independent_policy or the
\* three sweeps, returning or raising, changes the caller's parameter set
\* (A, r, the items, their order, their a, D, v); so the parameter set after
\* any sequence of calls is the initial one and solves the same.
C18_ParamsUnchanged == [][params' = params]_vars

\* a sweep over the setup cost of an existing item has returned: its
\* samples differ from the item's own setup cost, and the ranking of the
\* items differs from their input order
C18_Witness ==
    /\ SweepReturned
    /\ call.op = "sensitivity_curve_over_item"
    /\ call.key = "a"
    /\ Len(call.values) >= 1
    /\ \E k \in 1..Len(params.items) :
          /\ params.items[k].id = call.item_id
          /\ \A j \in 1..Len(call.values) : params.items[k].a # call.values[j]
    /\ RankOrder(params.items) # [k \in 1..Len(params.items) |-> k]

\* the base item: the first of the ranking
BaseOf(p) == p.items[RankOrder(p.items)[1]]
\* m_i^2 = (a_i * D_base * v_base) / ((A + a_base) * D_i * v_i) of input item k
MSquare(p, k) ==
    RDiv(RMul(p.items[k].a, RMul(BaseOf(p).D, BaseOf(p).v)),
         RMul(RAdd(p.A, BaseOf(p).a), RMul(p.items[k].D, p.items[k].v)))
\* q = (2j+1)^2 / 4 for some integer j >= 0: sqrt(q) is half-way between
\* two integers
HalfWay(q) == q[2] = 4 /\ ISqrt(q[1]) * ISqrt(q[1]) = q[1]
\* (k - 1/2)^2 < q < (k + 1/2)^2
NearestIs(q, k) ==
    /\ RLess(Rat((2 * k - 1) * (2 * k - 1), 4), q)
    /\ RLess(q, Rat((2 * k + 1) * (2 * k + 1), 4))
NonBase(p) == {k \in 1..Len(p.items) : RankOf(p.items, k) # 1}

\* C19: for every non-base item whose m_i is not half-way between two
\* integers, the assigned multiplier k is the nearest integer to m_i,
\* (k - 1/2)^2 < m_i^2 < (k + 1/2)^2, or k = 1 with m_i < 1/2; it is the
\* multiplier returned for the item when the ids are distinct.
C19_NearestInteger ==
    FormulaReturned =>
        \A k \in NonBase(params) :
            LET q == MSquare(params, k)
                mult == MultiplierOf(params, k)
            IN  /\ mult \in Nat /\ mult >= 1
                /\ ~HalfWay(q) => NearestIs(q, mult) \/ (mult = 1 /\ RLess(q, Rat(1, 4)))
                /\ RLess(q, Rat(1, 4)) => mult = 1
                /\ DistinctIds(params.items) => result.value.m[k] = mult

\* a returned solve of distinct ids with a non-base item whose m_i lies
\* strictly between 3/2 and 2 (rounded up to 2) and one with a_i = 0
C19_Witness ==
    /\ FormulaReturned /\ DistinctIds(params.items)
    /\ \E k \in NonBase(params) :
          /\ RLess(Rat(9, 4), MSquare(params, k))
          /\ RLess(MSquare(params, k), RInt(4))
          /\ result.value.m[k] = 2

\* C20: when m_i is exactly half-way between two integers j and j + 1
\* (m_i^2 = (2j+1)^2 / 4), the assigned multiplier is the even one of the
\* two, and 1 for m_i = 1/2 (0 clamped to 1): 1.5 -> 2, 2.5 -> 2, not 3.
C20_HalfToEven ==
    FormulaReturned =>
        \A k \in NonBase(params) :
            LET q == MSquare(params, k)
                j == (ISqrt(q[1]) - 1) \div 2
                mult == MultiplierOf(params, k)
            IN  HalfWay(q) =>
                    /\ mult = (IF j = 0 THEN 1 ELSE IF j % 2 = 0 THEN j ELSE j + 1)
                    /\ DistinctIds(params.items) => result.value.m[k] = mult

\* a returned solve of distinct ids with a non-base item of m_i = 5/2,
\* returned with multiplier 2
C20_Witness ==
    /\ FormulaReturned /\ DistinctIds(params.items)
    /\ \E k \in NonBase(params) :
          /\ MSquare(params, k) = Rat(25, 4)
          /\ result.value.m[k] = 2

\* the returned multipliers do not decrease along the ranking ratio
MonotoneInRatio(p, sol) ==
    \A j, k \in 1..Len(p.items) :
        RLeq(Ratio(p.items[j]), Ratio(p.items[k])) => sol.m[j] <= sol.m[k]

\* items tied with the smallest ratio
TiedWithBase(p) == {k \in 1..Len(p.items) : MinRatio(p.items, k)}

\* C21 as stated: in every Solution returned by find_formula_policy, for any
\* two items i and j with a_i/(D_i*v_i) <= a_j/(D_j*v_j) the multiplier of i
\* is <= the multiplier of j, so every item tied with the base item's ratio
\* has multiplier 1.
C21_Original ==
    FormulaReturned =>
        /\ MonotoneInRatio(params, result.value)
        /\ \A k \in TiedWithBase(params) : result.value.m[k] = 1

\* C21 amended: the same, for parameter sets whose item ids are pairwise
\* distinct; for any ids, it holds of the multipliers step 3 computes.
C21_MonotoneMultipliers ==
    FormulaReturned =>
        /\ \A j, k \in 1..Len(params.items) :
              RLeq(Ratio(params.items[j]), Ratio(params.items[k])) =>
                  MultiplierOf(params, j) <= MultiplierOf(params, k)
        /\ \A k \in TiedWithBase(params) : MultiplierOf(params, k) = 1
        /\ DistinctIds(params.items) =>
              /\ MonotoneInRatio(params, result.value)
              /\ \A k \in TiedWithBase(params) : result.value.m[k] = 1

\* a returned solve of three distinct ids where two items tie for the
\* smallest ratio and the third, of a larger ratio, has a multiplier above 1
C21_Witness ==
    /\ FormulaReturned /\ DistinctIds(params.items)
    /\ Len(params.items) = 3
    /\ Cardinality(TiedWithBase(params)) = 2
    /\ \E k \in 1..3 : result.value.m[k] >= 2

\* a sweep over an item attribute with a valid key and an item_id that no
\* item of the parameter set has
UnmatchedCall ==
    /\ call.op = "sensitivity_curve_over_item"
    /\ call.key \in ValidKeys
    /\ \A k \in 1..Len(params.items) : params.items[k].id # call.item_id

\* the outcome of a sweep that solves the parameter set p once per sample
RepeatedSolve(p, values) ==
    CHOOSE out \in
        {IF values = <<>> THEN Returned(<<<<>>, <<>>>>)
         ELSE IF base.status = "returned"
         THEN Returned(<<values, [n \in 1..Len(values) |-> base.value.total_cost]>>)
         ELSE Raised(base.status) :
            base \in {FindFormulaPolicy(p)}} : TRUE

=============================================================================
